---- MODULE Spec2Model ----
(***************************************************************************)
(* A model of pdf_extractor.py: two text-layer extractors, the optional    *)
(* OCR extractor, compare_methods, save_results and the driver main.       *)
(*                                                                         *)
(* Python strings are sequences of one-character strings, so that          *)
(* str.replace, str.strip, str.join, len and the f-string that builds an   *)
(* output file name are computed and not assumed.  None is the empty       *)
(* sequence and a value that is set is a one-element sequence.  A dict is  *)
(* a sequence of [k, v] entries in insertion order.                        *)
(*                                                                         *)
(* The libraries are the environment: what fitz, pdfplumber, pdf2image and *)
(* pytesseract return or raise is drawn from small sets.  Writing to the   *)
(* output directory is taken to succeed, and closing a document that was   *)
(* read to its end is taken not to raise.                                  *)
(***************************************************************************)
EXTENDS Integers, Sequences, FiniteSets, TLC

\* ------------------------------------------------------------------ bounds
MaxFiles == 2
MaxPages == 3

\* ------------------------------------------------------- program constants
NameColumnWidth == 50
NameKept == 47

\* ------------------------------------------------------------ Python values
None == <<>>
Some(x) == <<x>>

Whitespace == {" ", "\n", "\t"}

\* text.strip(): drop the leading and the trailing whitespace characters
RECURSIVE LStrip(_)
LStrip(s) ==
    IF s # <<>> /\ Head(s) \in Whitespace THEN LStrip(Tail(s)) ELSE s

RECURSIVE RStrip(_)
RStrip(s) ==
    IF s # <<>> /\ s[Len(s)] \in Whitespace
    THEN RStrip(SubSeq(s, 1, Len(s) - 1))
    ELSE s

Strip(s) == RStrip(LStrip(s))

\* s.replace(old, ""): every non-overlapping occurrence, left to right
RECURSIVE Replace(_, _)
Replace(s, old) ==
    IF Len(s) < Len(old) THEN s
    ELSE IF SubSeq(s, 1, Len(old)) = old
         THEN Replace(SubSeq(s, Len(old) + 1, Len(s)), old)
         ELSE <<Head(s)>> \o Replace(Tail(s), old)

\* sep.join(parts)
RECURSIVE Join(_, _)
Join(sep, parts) ==
    IF parts = <<>> THEN <<>>
    ELSE IF Len(parts) = 1 THEN parts[1]
    ELSE parts[1] \o sep \o Join(sep, Tail(parts))

EndsWith(s, suffix) ==
    /\ Len(s) >= Len(suffix)
    /\ SubSeq(s, Len(s) - Len(suffix) + 1, Len(s)) = suffix

\* dict operations (insertion ordered)
DictHas(d, k) == \E i \in 1..Len(d) : d[i].k = k

DictSet(d, k, v) ==
    IF DictHas(d, k)
    THEN [i \in 1..Len(d) |-> IF d[i].k = k THEN [k |-> k, v |-> v] ELSE d[i]]
    ELSE Append(d, [k |-> k, v |-> v])

DictGet(d, k, default) ==
    IF DictHas(d, k)
    THEN d[CHOOSE i \in 1..Len(d) : d[i].k = k].v
    ELSE default

\* ---------------------------------------------------------------- literals
DotPdf == <<".", "p", "d", "f">>
DotTxt == <<".", "t", "x", "t">>
PYMUPDF == <<"p", "y", "m", "u", "p", "d", "f">>
PDFPLUMBER == <<"p", "d", "f", "p", "l", "u", "m", "b", "e", "r">>
OCR == <<"o", "c", "r">>
Newline == <<"\n">>
Ellipsis == <<".", ".", ".">>

\* ---------------------------------------------- the input directory (env)
\* names a directory may hold: three that match *.pdf and one that does not
FileNamePool ==
    { <<"a">> \o DotPdf,
      <<"a">> \o DotPdf \o DotPdf,
      <<"b">> \o DotPdf,
      <<"a">> \o DotTxt }

\* a directory listing: distinct names, in the order the file system yields
Listings ==
    UNION { { l \in [1..n -> FileNamePool] :
                \A i, j \in 1..n : i # j => l[i] # l[j] } : n \in 0..MaxFiles }

\* PDF_DIR.glob("*.pdf"): the entries whose name ends in .pdf, in order
RECURSIVE Glob(_)
Glob(listing) ==
    IF listing = <<>> THEN <<>>
    ELSE IF EndsWith(Head(listing), DotPdf)
         THEN <<Head(listing)>> \o Glob(Tail(listing))
         ELSE Glob(Tail(listing))

\* ------------------------------------------- what the libraries do (env)
\* page.get_text("text"): a text (empty when the page has no text layer),
\* or an exception
PyPageReads ==
    { [raises |-> None, text |-> <<>>],
      [raises |-> None, text |-> <<" ">>],
      [raises |-> None, text |-> <<"x">>],
      [raises |-> Some("page failed"), text |-> <<>>] }

\* page sequences as the extractor meets them: nothing is read after a raise
ReadSeqs(PageReads) ==
    UNION { { r \in [1..n -> PageReads] :
                \A i \in 1..n : r[i].raises # None => i = n } : n \in 0..MaxPages }

\* fitz.open(pdf_path): an exception, or a document and its page reads
PyDocs ==
    { [open_error |-> Some("open failed"), reads |-> <<>>] }
    \cup { [open_error |-> None, reads |-> r] : r \in ReadSeqs(PyPageReads) }

\* page.extract_text() (a text or None) and page.extract_tables()
PlPageReads ==
    { [raises |-> None, raw |-> None, tables_raises |-> None, tables |-> <<>>],
      [raises |-> None, raw |-> Some(<<>>), tables_raises |-> None,
       tables |-> <<>>],
      [raises |-> None, raw |-> Some(<<"x">>), tables_raises |-> None,
       tables |-> <<"table">>],
      [raises |-> Some("page failed"), raw |-> None, tables_raises |-> None,
       tables |-> <<>>],
      [raises |-> None, raw |-> Some(<<"x">>),
       tables_raises |-> Some("tables failed"), tables |-> <<>>] }

PlReadSeqs ==
    UNION { { r \in [1..n -> PlPageReads] :
                \A i \in 1..n :
                    (r[i].raises # None \/ r[i].tables_raises # None) => i = n }
            : n \in 0..MaxPages }

\* pdfplumber.open(pdf_path)
PlDocs ==
    { [open_error |-> Some("open failed"), reads |-> <<>>] }
    \cup { [open_error |-> None, reads |-> r] : r \in PlReadSeqs }

\* The documents a run of main meets, one for each outcome the driver can
\* tell apart: the open fails; a text that is empty, that is not blank, that
\* is blank and not empty ("" and "" joined by a newline); a page read fails
\* after a page was read; for pdfplumber also a table extraction that fails.
PyRunDocs ==
    { [open_error |-> Some("open failed"), reads |-> <<>>],
      [open_error |-> None,
       reads |-> << [raises |-> None, text |-> <<>>] >>],
      [open_error |-> None,
       reads |-> << [raises |-> None, text |-> <<"x">>] >>],
      [open_error |-> None,
       reads |-> << [raises |-> None, text |-> <<>>],
                    [raises |-> None, text |-> <<>>] >>],
      [open_error |-> None,
       reads |-> << [raises |-> None, text |-> <<"x">>],
                    [raises |-> Some("page failed"), text |-> <<>>] >>] }

PlRunDocs ==
    { [open_error |-> Some("open failed"), reads |-> <<>>],
      [open_error |-> None,
       reads |-> << [raises |-> None, raw |-> None, tables_raises |-> None,
                     tables |-> <<>>] >>],
      [open_error |-> None,
       reads |-> << [raises |-> None, raw |-> Some(<<"x">>),
                     tables_raises |-> None, tables |-> <<"table">>] >>],
      [open_error |-> None,
       reads |-> << [raises |-> None, raw |-> None, tables_raises |-> None,
                     tables |-> <<>>],
                    [raises |-> None, raw |-> None, tables_raises |-> None,
                     tables |-> <<>>] >>],
      [open_error |-> None,
       reads |-> << [raises |-> None, raw |-> Some(<<"x">>),
                     tables_raises |-> None, tables |-> <<"table">>],
                    [raises |-> Some("page failed"), raw |-> None,
                     tables_raises |-> None, tables |-> <<>>] >>],
      [open_error |-> None,
       reads |-> << [raises |-> None, raw |-> Some(<<"x">>),
                     tables_raises |-> Some("tables failed"),
                     tables |-> <<>>] >>] }

\* ----------------------------------------------------- extract_with_pymupdf
PyMuPDFResult ==
    [method |-> "PyMuPDF", text |-> <<>>, pages |-> <<>>,
     success |-> FALSE, error |-> None]

\* the for loop over enumerate(doc): stops at the first exception
RECURSIVE PyMuPDFLoop(_, _, _, _)
PyMuPDFLoop(reads, page_num, all_text, pages) ==
    IF reads = <<>>
    THEN [all_text |-> all_text, pages |-> pages, raised |-> None]
    ELSE LET page == Head(reads) IN
         IF page.raises # None
         THEN [all_text |-> all_text, pages |-> pages, raised |-> page.raises]
         ELSE PyMuPDFLoop(Tail(reads), page_num + 1,
                          Append(all_text, page.text),
                          Append(pages, [page |-> page_num + 1,
                                         text |-> page.text,
                                         char_count |-> Len(page.text)]))

\* mutant: the text is joined as far as it was read when a page read raises
extract_with_pymupdf_partial_text(doc) ==
    IF doc.open_error # None
    THEN [ret |-> [PyMuPDFResult EXCEPT !.error = Some(doc.open_error[1])],
          doc_open |-> FALSE]
    ELSE LET loop == PyMuPDFLoop(doc.reads, 0, <<>>, <<>>) IN
         IF loop.raised # None
         THEN [ret |-> [PyMuPDFResult EXCEPT !.pages = loop.pages,
                                              !.text = Join(Newline, loop.all_text),
                                              !.error = Some(loop.raised[1])],
               doc_open |-> TRUE]
         ELSE [ret |-> [PyMuPDFResult EXCEPT !.pages = loop.pages,
                                              !.text = Join(Newline, loop.all_text),
                                              !.success = TRUE],
               doc_open |-> FALSE]

\* ret is the returned dict; doc_open tells whether the fitz document is
\* still open when the function returns (doc.close() is the last statement
\* of the try block and is skipped by an exception)
extract_with_pymupdf(doc) ==
    IF doc.open_error # None
    THEN [ret |-> [PyMuPDFResult EXCEPT !.error = Some(doc.open_error[1])],
          doc_open |-> FALSE]
    ELSE LET loop == PyMuPDFLoop(doc.reads, 0, <<>>, <<>>) IN
         IF loop.raised # None
         THEN [ret |-> [PyMuPDFResult EXCEPT !.pages = loop.pages,
                                              !.error = Some(loop.raised[1])],
               doc_open |-> TRUE]
         ELSE [ret |-> [PyMuPDFResult EXCEPT !.pages = loop.pages,
                                              !.text = Join(Newline, loop.all_text),
                                              !.success = TRUE],
               doc_open |-> FALSE]

\* -------------------------------------------------- extract_with_pdfplumber
PdfplumberResult ==
    [method |-> "pdfplumber", text |-> <<>>, pages |-> <<>>, tables |-> <<>>,
     success |-> FALSE, error |-> None]

\* page.extract_text() or ""
OrEmpty(raw) == IF raw = None \/ raw[1] = <<>> THEN <<>> ELSE raw[1]

RECURSIVE PdfplumberLoop(_, _, _, _, _)
PdfplumberLoop(reads, page_num, all_text, pages, tables) ==
    IF reads = <<>>
    THEN [all_text |-> all_text, pages |-> pages, tables |-> tables,
          raised |-> None]
    ELSE LET page == Head(reads)
             page_text == OrEmpty(page.raw)
         IN
         IF page.raises # None
         THEN [all_text |-> all_text, pages |-> pages, tables |-> tables,
               raised |-> page.raises]
         ELSE IF page.tables_raises # None
         THEN [all_text |-> Append(all_text, page_text), pages |-> pages,
               tables |-> tables, raised |-> page.tables_raises]
         ELSE PdfplumberLoop(
                  Tail(reads), page_num + 1,
                  Append(all_text, page_text),
                  Append(pages, [page |-> page_num + 1,
                                 text |-> page_text,
                                 char_count |-> Len(page_text),
                                 table_count |-> Len(page.tables)]),
                  IF page.tables # <<>>
                  THEN Append(tables, [page |-> page_num + 1,
                                       tables |-> page.tables])
                  ELSE tables)

\* the with block closes the document on every way out of it
extract_with_pdfplumber(doc) ==
    IF doc.open_error # None
    THEN [ret |-> [PdfplumberResult EXCEPT !.error = Some(doc.open_error[1])],
          doc_open |-> FALSE]
    ELSE LET loop == PdfplumberLoop(doc.reads, 0, <<>>, <<>>, <<>>) IN
         IF loop.raised # None
         THEN [ret |-> [PdfplumberResult EXCEPT !.pages = loop.pages,
                                                 !.tables = loop.tables,
                                                 !.error = Some(loop.raised[1])],
               doc_open |-> FALSE]
         ELSE [ret |-> [PdfplumberResult EXCEPT !.pages = loop.pages,
                                                 !.tables = loop.tables,
                                                 !.text = Join(Newline, loop.all_text),
                                                 !.success = TRUE],
               doc_open |-> FALSE]

\* --------------------------------------------------------- extract_with_ocr
\* the two f-string prefixes of the error messages
LibraryMissing == "library missing: "
ConvertFailed == "pdf to image conversion failed (poppler needed): "

TesseractDefaultCmd == "tesseract"
tesseract_paths == <<"C:/Program Files/Tesseract-OCR/tesseract.exe",
                     "C:/Program Files (x86)/Tesseract-OCR/tesseract.exe">>

\* pytesseract.image_to_string on one image, the engine being installed
ImageReads ==
    { [raises |-> None, text |-> <<>>],
      [raises |-> None, text |-> <<"x">>],
      [raises |-> Some([cls |-> "TesseractError", msg |-> "ocr failed"]),
       text |-> <<>>] }

\* the machine extract_with_ocr runs on:
\*   pytesseract, pdf2image  the Python packages can be imported
\*   poppler, tesseract      the rasterizer and the OCR engine are installed
\*   paths                   which of tesseract_paths exist
\*   pdf_bad                 the rasterizer cannot convert this file
\*   images                  the page images (at least one) and what OCR
\*                           makes of each
OcrEnvs ==
    [pytesseract : BOOLEAN, pdf2image : BOOLEAN,
     poppler : BOOLEAN, tesseract : BOOLEAN,
     paths : SUBSET {1, 2}, pdf_bad : BOOLEAN,
     images : ReadSeqs(ImageReads) \ {<<>>}]

\* pdf2image.convert_from_path(pdf_path)
convert_from_path(env) ==
    IF ~env.poppler
    THEN [raises |-> Some([cls |-> "PDFInfoNotInstalledError",
                           msg |-> "poppler is not installed"]),
          images |-> <<>>]
    ELSE IF env.pdf_bad
    THEN [raises |-> Some([cls |-> "PDFPageCountError",
                           msg |-> "cannot read the page count"]),
          images |-> <<>>]
    ELSE [raises |-> None, images |-> env.images]

\* pytesseract.image_to_string(image, ...)
image_to_string(env, image) ==
    IF ~env.tesseract
    THEN [raises |-> Some([cls |-> "TesseractNotFoundError",
                           msg |-> "tesseract is not installed"]),
          text |-> <<>>]
    ELSE image

\* the loop over tesseract_paths: the first path that exists
tesseract_cmd_after(env) ==
    IF 1 \in env.paths THEN tesseract_paths[1]
    ELSE IF 2 \in env.paths THEN tesseract_paths[2]
    ELSE TesseractDefaultCmd

OcrResult ==
    [method |-> "OCR", text |-> <<>>, pages |-> <<>>, success |-> FALSE,
     error |-> None, note |-> "Tesseract OCR must be installed"]

RECURSIVE OcrLoop(_, _, _, _, _)
OcrLoop(env, images, page_num, all_text, pages) ==
    IF images = <<>>
    THEN [all_text |-> all_text, pages |-> pages, raised |-> None]
    ELSE LET read == image_to_string(env, Head(images)) IN
         IF read.raises # None
         THEN [all_text |-> all_text, pages |-> pages, raised |-> read.raises]
         ELSE OcrLoop(env, Tail(images), page_num + 1,
                      Append(all_text, read.text),
                      Append(pages, [page |-> page_num + 1,
                                     text |-> read.text,
                                     char_count |-> Len(read.text)]))

\* except ImportError / except Exception of the outer try
OcrOuterHandler(e) ==
    IF e.cls = "ImportError"
    THEN Some(<<LibraryMissing, e.msg>>)
    ELSE Some(<<e.msg>>)

\* ret is the returned dict, cmd the value of pytesseract's tesseract_cmd
extract_with_ocr(env) ==
    IF ~env.pytesseract
    THEN [ret |-> [OcrResult EXCEPT !.error =
                     OcrOuterHandler([cls |-> "ImportError",
                                      msg |-> "No module named pytesseract"])],
          cmd |-> TesseractDefaultCmd]
    ELSE IF ~env.pdf2image
    THEN [ret |-> [OcrResult EXCEPT !.error =
                     OcrOuterHandler([cls |-> "ImportError",
                                      msg |-> "No module named pdf2image"])],
          cmd |-> TesseractDefaultCmd]
    ELSE LET conv == convert_from_path(env) IN
         IF conv.raises # None
         THEN [ret |-> [OcrResult EXCEPT !.error =
                          Some(<<ConvertFailed, conv.raises[1].msg>>)],
               cmd |-> tesseract_cmd_after(env)]
         ELSE LET loop == OcrLoop(env, conv.images, 0, <<>>, <<>>) IN
              IF loop.raised # None
              THEN [ret |-> [OcrResult EXCEPT !.pages = loop.pages,
                                               !.error = OcrOuterHandler(loop.raised[1])],
                    cmd |-> tesseract_cmd_after(env)]
              ELSE [ret |-> [OcrResult EXCEPT !.pages = loop.pages,
                                               !.text = Join(Newline, loop.all_text),
                                               !.success = TRUE],
                    cmd |-> tesseract_cmd_after(env)]

\* ---------------------------------------------------------- compare_methods
\* mutant: pdfplumber is only tried when PyMuPDF succeeded
compare_methods_stop_on_failure(py_doc, pl_doc) ==
    LET a == extract_with_pymupdf(py_doc)
        b == extract_with_pdfplumber(pl_doc)
        r1 == DictSet(<<>>, PYMUPDF, a.ret)
        r2 == DictSet(r1, PDFPLUMBER, b.ret)
        first == << [method |-> PYMUPDF, doc |-> py_doc, ret |-> a.ret] >>
    IN IF ~a.ret.success
       THEN [results |-> r1, calls |-> first,
             left_open |-> IF a.doc_open THEN {PYMUPDF} ELSE {}]
       ELSE [results |-> r2,
             calls |-> Append(first, [method |-> PDFPLUMBER, doc |-> pl_doc,
                                      ret |-> b.ret]),
             left_open |-> (IF a.doc_open THEN {PYMUPDF} ELSE {})
                           \cup (IF b.doc_open THEN {PDFPLUMBER} ELSE {})]

\* mutant: the OCR call of line 197 is not commented out
compare_methods_with_ocr(py_doc, pl_doc) ==
    LET a == extract_with_pymupdf(py_doc)
        b == extract_with_pdfplumber(pl_doc)
        env == [pytesseract |-> TRUE, pdf2image |-> TRUE, poppler |-> TRUE,
                tesseract |-> TRUE, paths |-> {}, pdf_bad |-> FALSE,
                images |-> << [raises |-> None, text |-> <<"x">>] >>]
        c == extract_with_ocr(env)
        r1 == DictSet(<<>>, PYMUPDF, a.ret)
        r2 == DictSet(r1, PDFPLUMBER, b.ret)
        r3 == DictSet(r2, OCR, c.ret)
    IN [results |-> r3,
        calls |-> << [method |-> PYMUPDF, doc |-> py_doc, ret |-> a.ret],
                     [method |-> PDFPLUMBER, doc |-> pl_doc, ret |-> b.ret],
                     [method |-> OCR, doc |-> env, ret |-> c.ret] >>,
        left_open |-> (IF a.doc_open THEN {PYMUPDF} ELSE {})
                      \cup (IF b.doc_open THEN {PDFPLUMBER} ELSE {})]

\* One call: results is the returned dict, calls the extractor calls made,
\* in order, and left_open the methods whose document is still open.
compare_methods(py_doc, pl_doc) ==
    LET a == extract_with_pymupdf(py_doc)
        b == extract_with_pdfplumber(pl_doc)
        r1 == DictSet(<<>>, PYMUPDF, a.ret)
        r2 == DictSet(r1, PDFPLUMBER, b.ret)
    IN [results |-> r2,
        calls |-> << [method |-> PYMUPDF, doc |-> py_doc, ret |-> a.ret],
                     [method |-> PDFPLUMBER, doc |-> pl_doc, ret |-> b.ret] >>,
        left_open |-> (IF a.doc_open THEN {PYMUPDF} ELSE {})
                      \cup (IF b.doc_open THEN {PDFPLUMBER} ELSE {})]

\* ------------------------------------------------------------- save_results
\* mutant: the text is not stripped before it is tested
SaveConditionNoStrip(result) == result.success /\ result.text # <<>>

\* if result["success"] and result["text"].strip()
SaveCondition(result) == result.success /\ Strip(result.text) # <<>>

\* f"{base_name}_{method_name}.txt"
OutputFileName(base_name, method_name) ==
    base_name \o <<"_">> \o method_name \o DotTxt

\* what the with block writes (the time stamp line is left out)
OutputContent(pdf_name, result) ==
    [method |-> result.method, source |-> pdf_name,
     chars |-> Len(result.text), pages |-> Len(result.pages),
     text |-> result.text]

\* the loop over results.items(): files is the directory's content (file
\* name -> content), written the open(..., "w") calls made, in order
RECURSIVE SaveLoop(_, _, _, _, _)
SaveLoop(items, pdf_name, base_name, files, written) ==
    IF items = <<>>
    THEN [files |-> files, written |-> written]
    ELSE LET method_name == Head(items).k
             result == Head(items).v
             output_file == OutputFileName(base_name, method_name)
         IN
         IF SaveCondition(result)
         THEN SaveLoop(Tail(items), pdf_name, base_name,
                       (output_file :> OutputContent(pdf_name, result)) @@ files,
                       Append(written, [file |-> output_file,
                                        method |-> method_name]))
         ELSE SaveLoop(Tail(items), pdf_name, base_name, files, written)

save_results(pdf_name, results_, files) ==
    SaveLoop(results_, pdf_name, Replace(pdf_name, DotPdf), files, <<>>)

\* ------------------------------------------------------------ summary table
\* pdf_name[:47] + "..." if len(pdf_name) > 50 else pdf_name
ShortName(pdf_name) ==
    IF Len(pdf_name) > NameColumnWidth
    THEN SubSeq(pdf_name, 1, NameKept) \o Ellipsis
    ELSE pdf_name

NoResult == [text |-> <<>>]

\* mutant: both columns are counted from the PyMuPDF result
SummaryRowSameColumn(pdf_name, results_) ==
    [name |-> ShortName(pdf_name),
     PyMuPDF |-> Len(DictGet(results_, PYMUPDF, NoResult).text),
     pdfplumber |-> Len(DictGet(results_, PYMUPDF, NoResult).text)]

\* one table line: len(results.get(m, {}).get("text", "")) for each column
SummaryRow(pdf_name, results_) ==
    [name |-> ShortName(pdf_name),
     PyMuPDF |-> Len(DictGet(results_, PYMUPDF, NoResult).text),
     pdfplumber |-> Len(DictGet(results_, PDFPLUMBER, NoResult).text)]

\* the loop over all_results.items()
SummaryRows(all) ==
    [i \in 1..Len(all) |-> SummaryRow(all[i].k, all[i].v)]

\* ---------------------------------------------------------------- the state
VARIABLES
    pc,             \* where main is: start, compare, save, summary, done;
                    \* pymupdf, pdfplumber, ocr and returned for a call of
                    \* one extractor on its own
    dir_exists,     \* PDF_DIR exists
    dir_listing,    \* the names in PDF_DIR, in file system order
    pdf_files,      \* main's list of discovered files
    file_idx,       \* position of the for loop in pdf_files
    results,        \* main's results: the dict compare_methods returned
    all_results,    \* main's all_results dict
    out_dir_exists, \* OUTPUT_DIR exists
    disk,           \* the files of OUTPUT_DIR: file name -> content
    summary,        \* the summary file: None, or Some(its table rows)
    open_docs,      \* documents opened and not closed: <<file, method>>
    trace,          \* history: extractor calls, saves and summary writes
    last_save,      \* history: the last save_results call
    ext_doc,        \* the document of a call of one text-layer extractor
    ocr_env,        \* the machine of a call of extract_with_ocr
    ocr_ret,        \* None, or Some(the dict that call returned)
    tesseract_cmd   \* pytesseract.pytesseract.tesseract_cmd

vars == <<pc, dir_exists, dir_listing, pdf_files, file_idx, results,
          all_results, out_dir_exists, disk, summary, open_docs, trace,
          last_save, ext_doc, ocr_env, ocr_ret, tesseract_cmd>>

NoFiles == [n \in {} |-> <<>>]

Event(op, file, call) == [op |-> op, file |-> file, call |-> call]

InitCommon ==
    /\ pdf_files = <<>>
    /\ file_idx = 0
    /\ results = <<>>
    /\ all_results = <<>>
    /\ out_dir_exists = FALSE
    /\ disk = NoFiles
    /\ summary = None
    /\ open_docs = {}
    /\ trace = <<>>
    /\ last_save = None
    /\ ocr_ret = None
    /\ tesseract_cmd = TesseractDefaultCmd

Init ==
    /\ pc = "start"
    /\ \/ dir_exists = FALSE /\ dir_listing = <<>>
       \/ dir_exists = TRUE /\ dir_listing \in Listings
    /\ ext_doc = None
    /\ ocr_env = None
    /\ InitCommon

\* ---------------------------------------------------------------------- main
\* mutant: the output directory is made before the input is looked at
main_discover_mkdir_first ==
    /\ pc = "start"
    /\ out_dir_exists' = TRUE
    /\ IF ~dir_exists
       THEN /\ pc' = "done"
            /\ UNCHANGED <<pdf_files, file_idx, all_results>>
       ELSE /\ pdf_files' = Glob(dir_listing)
            /\ IF pdf_files' = <<>>
               THEN /\ pc' = "done"
                    /\ UNCHANGED <<file_idx, all_results>>
               ELSE /\ all_results' = <<>>
                    /\ file_idx' = 1
                    /\ pc' = "compare"
    /\ UNCHANGED <<dir_exists, dir_listing, results, disk, summary, open_docs,
                   trace, last_save, ext_doc, ocr_env, ocr_ret, tesseract_cmd>>

\* lines 240-257: the two guards, then mkdir and the empty all_results
main_discover ==
    /\ pc = "start"
    /\ IF ~dir_exists
       THEN /\ pc' = "done"
            /\ UNCHANGED <<pdf_files, file_idx, out_dir_exists, all_results>>
       ELSE /\ pdf_files' = Glob(dir_listing)
            /\ IF pdf_files' = <<>>
               THEN /\ pc' = "done"
                    /\ UNCHANGED <<file_idx, out_dir_exists, all_results>>
               ELSE /\ out_dir_exists' = TRUE
                    /\ all_results' = <<>>
                    /\ file_idx' = 1
                    /\ pc' = "compare"
    /\ UNCHANGED <<dir_exists, dir_listing, results, disk, summary, open_docs,
                   trace, last_save, ext_doc, ocr_env, ocr_ret, tesseract_cmd>>

\* lines 260-261: results = compare_methods(pdf_file);
\* all_results[pdf_file.name] = results
main_compare ==
    /\ pc = "compare"
    /\ \E py_doc \in PyRunDocs, pl_doc \in PlRunDocs :
         LET pdf_name == pdf_files[file_idx]
             c == compare_methods(py_doc, pl_doc)
         IN /\ results' = c.results
            /\ all_results' = DictSet(all_results, pdf_name, c.results)
            /\ open_docs' = open_docs \cup { <<pdf_name, m>> : m \in c.left_open }
            /\ trace' = trace \o
                 [i \in 1..Len(c.calls) |-> Event("extract", pdf_name, c.calls[i])]
    /\ pc' = "save"
    /\ UNCHANGED <<dir_exists, dir_listing, pdf_files, file_idx, out_dir_exists,
                   disk, summary, last_save, ext_doc, ocr_env, ocr_ret,
                   tesseract_cmd>>

\* mutant: the loop is left after its first file
AfterSaveLeavesLoop(idx, n) == "summary"

\* where the for loop goes after one file: the next file, or past the loop
AfterSave(idx, n) == IF idx < n THEN "compare" ELSE "summary"

\* line 262: save_results(pdf_file.name, results, OUTPUT_DIR)
main_save ==
    /\ pc = "save"
    /\ LET pdf_name == pdf_files[file_idx]
           s == save_results(pdf_name, results, disk)
       IN /\ out_dir_exists' = TRUE
          /\ disk' = s.files
          /\ last_save' = Some([pdf_name |-> pdf_name, results |-> results,
                                written |-> s.written])
          /\ trace' = Append(trace, Event("save", pdf_name, None))
    /\ file_idx' = file_idx + 1
    /\ pc' = AfterSave(file_idx, Len(pdf_files))
    /\ UNCHANGED <<dir_exists, dir_listing, pdf_files, results, all_results,
                   summary, open_docs, ext_doc, ocr_env, ocr_ret, tesseract_cmd>>

\* lines 264-293: the summary file
main_summary ==
    /\ pc = "summary"
    /\ summary' = Some(SummaryRows(all_results))
    /\ trace' = Append(trace, Event("summary", None, None))
    /\ pc' = "done"
    /\ UNCHANGED <<dir_exists, dir_listing, pdf_files, file_idx, results,
                   all_results, out_dir_exists, disk, open_docs, last_save,
                   ext_doc, ocr_env, ocr_ret, tesseract_cmd>>

Next == main_discover \/ main_compare \/ main_save \/ main_summary

Spec == Init /\ [][Next]_vars

\* ------------------------------- a text-layer extractor called on its own
SomePath == <<"a">> \o DotPdf

InitExtract ==
    /\ \/ pc = "pymupdf" /\ ext_doc \in PyDocs
       \/ pc = "pdfplumber" /\ ext_doc \in PlDocs
    /\ dir_exists = FALSE
    /\ dir_listing = <<>>
    /\ ocr_env = None
    /\ InitCommon

call_pymupdf ==
    /\ pc = "pymupdf"
    /\ LET r == extract_with_pymupdf(ext_doc)
       IN /\ trace' = Append(trace, Event("extract", SomePath,
                                [method |-> PYMUPDF, doc |-> ext_doc,
                                 ret |-> r.ret]))
          /\ open_docs' = open_docs \cup
                             (IF r.doc_open THEN {<<SomePath, PYMUPDF>>} ELSE {})
    /\ pc' = "returned"
    /\ UNCHANGED <<dir_exists, dir_listing, pdf_files, file_idx, results,
                   all_results, out_dir_exists, disk, summary, last_save,
                   ext_doc, ocr_env, ocr_ret, tesseract_cmd>>

call_pdfplumber ==
    /\ pc = "pdfplumber"
    /\ LET r == extract_with_pdfplumber(ext_doc)
       IN /\ trace' = Append(trace, Event("extract", SomePath,
                                [method |-> PDFPLUMBER, doc |-> ext_doc,
                                 ret |-> r.ret]))
          /\ open_docs' = open_docs \cup
                             (IF r.doc_open THEN {<<SomePath, PDFPLUMBER>>} ELSE {})
    /\ pc' = "returned"
    /\ UNCHANGED <<dir_exists, dir_listing, pdf_files, file_idx, results,
                   all_results, out_dir_exists, disk, summary, last_save,
                   ext_doc, ocr_env, ocr_ret, tesseract_cmd>>

NextExtract == call_pymupdf \/ call_pdfplumber

SpecExtract == InitExtract /\ [][NextExtract]_vars

\* ------------------------------------- extract_with_ocr called on its own
InitOcr ==
    /\ pc = "ocr"
    /\ dir_exists = FALSE
    /\ dir_listing = <<>>
    /\ ext_doc = None
    /\ ocr_env \in OcrEnvs
    /\ InitCommon

ocr_call ==
    /\ pc = "ocr"
    /\ LET r == extract_with_ocr(ocr_env)
       IN /\ ocr_ret' = Some(r.ret)
          /\ tesseract_cmd' = r.cmd
    /\ pc' = "returned"
    /\ UNCHANGED <<dir_exists, dir_listing, pdf_files, file_idx, results,
                   all_results, out_dir_exists, disk, summary, open_docs,
                   trace, last_save, ext_doc, ocr_env>>

NextOcr == ocr_call

SpecOcr == InitOcr /\ [][NextOcr]_vars

\* ===================================================================== claims
TextMethods == {PYMUPDF, PDFPLUMBER}

\* the extractor calls made so far
ExtractEvents == { trace[j] : j \in { i \in 1..Len(trace) : trace[i].op = "extract" } }

\* a text that is empty once its whitespace is trimmed
Blank(text) == \A k \in 1..Len(text) : text[k] \in Whitespace

\* ---------------------------------------------------------------------- C1
\* C1: in every save_results call and for every method entry of its
\* FileResultSet, no output file is created when the result failed or its
\* text is blank, and exactly one output file, of its own name, is created
\* otherwise.
C1_OneFilePerSavedMethod ==
    last_save # None =>
        LET s == last_save[1]
            Created(m) == { j \in 1..Len(s.written) : s.written[j].method = m }
        IN /\ \A i \in 1..Len(s.results) :
                 LET e == s.results[i] IN
                 IF ~e.v.success \/ Blank(e.v.text)
                 THEN Created(e.k) = {}
                 ELSE /\ Cardinality(Created(e.k)) = 1
                      /\ \A j \in Created(e.k) : s.written[j].file \in DOMAIN disk
           /\ \A j, k \in 1..Len(s.written) :
                 j # k => s.written[j].file # s.written[k].file

\* a call that wrote one method's file and skipped a successful result whose
\* text is not empty but blank
C1_Witness ==
    /\ last_save # None
    /\ Len(last_save[1].written) = 1
    /\ \E i \in 1..Len(last_save[1].results) :
          LET r == last_save[1].results[i].v IN
          r.success /\ r.text # <<>> /\ Blank(r.text)

\* ---------------------------------------------------------------------- C2
\* C2: after a run over a non-empty set of discovered files the summary table
\* has one row per discovered file, in discovery order, and each row's
\* per-method count is the length of the text that method returned for
\* that file.
C2_SummaryRowsMatchResults ==
    (pc = "done" /\ pdf_files # <<>>) =>
        /\ summary # None
        /\ Len(summary[1]) = Len(pdf_files)
        /\ \A i \in 1..Len(pdf_files) :
              LET row == summary[1][i]
                  Returned(m) == { e \in ExtractEvents :
                                     e.file = pdf_files[i] /\ e.call.method = m }
              IN /\ row.name = pdf_files[i]
                 /\ Returned(PYMUPDF) # {}
                 /\ Returned(PDFPLUMBER) # {}
                 /\ \A e \in Returned(PYMUPDF) : row.PyMuPDF = Len(e.call.ret.text)
                 /\ \A e \in Returned(PDFPLUMBER) :
                       row.pdfplumber = Len(e.call.ret.text)

\* a finished run over two files whose first row has two different counts
C2_Witness ==
    /\ pc = "done"
    /\ Len(pdf_files) = 2
    /\ summary # None
    /\ summary[1][1].PyMuPDF = 0
    /\ summary[1][1].pdfplumber > 0
    /\ summary[1][2].PyMuPDF > 0

\* ---------------------------------------------------------------------- C3
\* C3: when the input directory is missing or holds no name ending in .pdf,
\* main ends having written no output file and no summary file and having
\* created nothing, the output directory included.
C3_NothingWrittenWithoutInput ==
    (pc = "done"
     /\ (~dir_exists \/ \A i \in 1..Len(dir_listing) :
                           ~EndsWith(dir_listing[i], DotPdf))) =>
        /\ disk = NoFiles
        /\ summary = None
        /\ ~out_dir_exists
        /\ trace = <<>>

\* main has returned from a directory that exists and holds only another file
C3_Witness ==
    /\ pc = "done"
    /\ dir_exists
    /\ dir_listing # <<>>
    /\ \A i \in 1..Len(dir_listing) : ~EndsWith(dir_listing[i], DotPdf)

\* ---------------------------------------------------------------------- C4
\* C4: a failed extraction is recorded in its result and never stops the run:
\* both text-layer methods are called for every discovered file whatever
\* failed before, the run can always take its next step, and it ends with the
\* summary written.
C4_FailuresAreIsolated ==
    LET Called(f, m) == \E e \in ExtractEvents : e.file = f /\ e.call.method = m
        Handled == IF pc = "save" THEN 1..file_idx
                   ELSE IF pc = "compare" THEN 1..(file_idx - 1)
                   ELSE 1..Len(pdf_files)
    IN /\ \A e \in ExtractEvents :
             ~e.call.ret.success => e.call.ret.error # None
       /\ \A i \in Handled : \A m \in TextMethods : Called(pdf_files[i], m)
       /\ pc # "done" => ENABLED Next
       /\ (pc = "done" /\ pdf_files # <<>>) => summary # None

\* a finished run of two files in which PyMuPDF failed on the first file and
\* pdfplumber on the second
C4_Witness ==
    /\ pc = "done"
    /\ Len(pdf_files) = 2
    /\ summary # None
    /\ \E e \in ExtractEvents :
          e.file = pdf_files[1] /\ e.call.method = PYMUPDF /\ ~e.call.ret.success
    /\ \E e \in ExtractEvents :
          e.file = pdf_files[2] /\ e.call.method = PDFPLUMBER /\ ~e.call.ret.success

\* ---------------------------------------------------------------------- C5
\* the input file name with its .pdf extension stripped
StripExtension(pdf_name) ==
    IF EndsWith(pdf_name, DotPdf)
    THEN SubSeq(pdf_name, 1, Len(pdf_name) - Len(DotPdf))
    ELSE pdf_name

\* C5: after a complete run the output directory holds, for each discovered
\* file and each method that succeeded with a text that is not blank, a file
\* named <base>_<method-id>.txt, <base> being the input name without its
\* .pdf extension, which still holds that input's text; two distinct inputs
\* never get the same output file name.
C5_DistinctOutputPerInput ==
    (pc = "done" /\ pdf_files # <<>>) =>
        /\ \A e \in ExtractEvents :
              (e.call.ret.success /\ ~Blank(e.call.ret.text)) =>
                  LET name == StripExtension(e.file) \o <<"_">>
                                \o e.call.method \o DotTxt
                  IN /\ name \in DOMAIN disk
                     /\ disk[name].source = e.file
        /\ Cardinality(DOMAIN disk) =
              Cardinality({ e \in ExtractEvents :
                              e.call.ret.success /\ ~Blank(e.call.ret.text) })

\* ---------------------------------------------------------------------- C6
\* a dependency of the OCR path is not installed
OcrDependencyMissing(env) ==
    ~env.pytesseract \/ ~env.pdf2image \/ ~env.poppler \/ ~env.tesseract

\* C6: with the OCR engine or the rasterizer dependency missing,
\* extract_with_ocr returns succeeded=false with the "library not installed"
\* message, and a conversion that fails at run time, nothing missing, gets
\* the "conversion failed" message.
C6_MissingDependencyIsTold ==
    (pc = "returned" /\ ocr_ret # None) =>
        LET r == ocr_ret[1] IN
        /\ OcrDependencyMissing(ocr_env) =>
              /\ ~r.success
              /\ r.error # None
              /\ r.error[1][1] = LibraryMissing
        /\ (~OcrDependencyMissing(ocr_env) /\ ocr_env.pdf_bad) =>
              /\ ~r.success
              /\ r.error # None
              /\ r.error[1][1] = ConvertFailed

\* ---------------------------------------------------------------------- C7
\* C7: in a run of main the OCR extractor is never called: every
\* FileResultSet has exactly the two text-layer keys, and no output file and
\* no summary column is written for the OCR method.
C7_OcrNeverRuns ==
    /\ \A e \in ExtractEvents : e.call.method \in TextMethods
    /\ ocr_ret = None
    /\ results # <<>> =>
          { results[i].k : i \in 1..Len(results) } = TextMethods
    /\ \A i \in 1..Len(all_results) :
          { all_results[i].v[j].k : j \in 1..Len(all_results[i].v) } = TextMethods
    /\ \A name \in DOMAIN disk :
          /\ ~EndsWith(name, <<"_">> \o OCR \o DotTxt)
          /\ disk[name].method # OcrResult.method
    /\ summary # None =>
          \A i \in 1..Len(summary[1]) :
              DOMAIN summary[1][i] = {"name", "PyMuPDF", "pdfplumber"}

\* a finished run that wrote output files and the summary
C7_Witness ==
    /\ pc = "done"
    /\ summary # None
    /\ Cardinality(DOMAIN disk) >= 2
    /\ Len(all_results) = 2

\* ---------------------------------------------------------------------- C8
\* C8: every document handle opened by an extractor is released on every way
\* out of it, the one where a page read raises after the open included.
C8_HandlesReleased == open_docs = {}

\* ---------------------------------------------------------------------- C9
\* what the history of a run over files must be: per file the two
\* extractions and then the save, and the summary after the last file
RECURSIVE ExpectedTrace(_)
ExpectedTrace(files) ==
    IF files = <<>>
    THEN << <<"summary", None, None>> >>
    ELSE << <<"extract", Head(files), PYMUPDF>>,
            <<"extract", Head(files), PDFPLUMBER>>,
            <<"save", Head(files), None>> >> \o ExpectedTrace(Tail(files))

TraceShape ==
    [i \in 1..Len(trace) |->
        <<trace[i].op, trace[i].file,
          IF trace[i].op = "extract" THEN trace[i].call.method ELSE None>>]

\* C9: main handles the files one at a time in discovery order, both
\* extractions and then the save of a file before anything of the next file,
\* and writes the summary once, after the last file was saved.
C9_OneFileAtATime ==
    LET expected == ExpectedTrace(pdf_files) IN
    /\ Len(TraceShape) <= Len(expected)
    /\ TraceShape = SubSeq(expected, 1, Len(TraceShape))
    /\ (pc = "done" /\ pdf_files # <<>>) => TraceShape = expected
    /\ (summary # None) <=> (\E i \in 1..Len(trace) : trace[i].op = "summary")

\* a finished run over two files
C9_Witness ==
    /\ pc = "done"
    /\ Len(pdf_files) = 2
    /\ Len(trace) = 7
    /\ summary # None

\* --------------------------------------------------------------------- C10
\* the message of the exception a document raised to its reader, if any
RaisedBy(doc) ==
    IF doc.open_error # None THEN doc.open_error
    ELSE IF doc.reads = <<>> THEN None
    ELSE LET last == doc.reads[Len(doc.reads)] IN
         IF last.raises # None THEN last.raises
         ELSE IF "tables_raises" \in DOMAIN last THEN last.tables_raises
         ELSE None

====
